---- MODULE Spec2Model ----
(***************************************************************************)
(* The task scheduler of lib/base/process/scheduler.rs as a state machine. *)
(*                                                                         *)
(* A TCB (Rc<RefCell<Task>>) is a handle 1..Len(tcb); handle 1 is the idle *)
(* task built by Scheduler::new.  A handle is never reused, so a TCB that  *)
(* left the task table but is still referenced (ready queue, current_task, *)
(* idle_task) keeps its fields, as the Rc keeps the Task alive.            *)
(***************************************************************************)
EXTENDS Integers, Sequences, FiniteSets, TLC

\* Number of spawn calls that allocate a TCB (model bound).
MaxSpawns == 2

\* Number of spawn calls that allocate a TCB where the interrupt flag and
\* the auxiliary operations are explored (model bound).
MaxIrqSpawns == 1

\* Number of priority levels.  The crate's value is not in scheduler.rs; two
\* levels tell lower, equal and higher priority apart.
NUM_PRIORITIES == 2

\* TID_COUNTER is an AtomicU32: fetch_add wraps.  The width is reduced, and
\* both a counter that wraps within MaxSpawns spawns (so that get_tid meets
\* ids still in the table) and one that does not are explored: Init picks
\* tid_modulus among these.
TidModuli == {MaxSpawns, MaxSpawns + 1}

\* NUM_TASKS is an AtomicU32: fetch_add / fetch_sub wrap.  Reduced width,
\* wide enough that no count of live tasks reaches the modulus.
NumTasksModulus == MaxSpawns + 2

VARIABLES
    tcb,             \* handle -> Task fields
    current_task,    \* Scheduler.current_task (a handle)
    idle_task,       \* Scheduler.idle_task (a handle)
    ready_queue,     \* Scheduler.ready_queue: priority -> FIFO of handles
    finished_tasks,  \* Scheduler.finished_tasks: FIFO of task ids
    tasks,           \* Scheduler.tasks: task id -> handle
    NUM_TASKS,       \* static NUM_TASKS
    TID_COUNTER,     \* static TID_COUNTER
    tid_modulus,     \* the modulus TID_COUNTER wraps at (fixed by Init)
    irq,             \* the CPU's interrupt-enable flag
    fatal,           \* "none", or the reason the kernel halted
    last             \* the operation that produced this state and its outcome:
                     \*   op, arg   the operation and its argument (a priority
                     \*             for spawn, a TCB for the others)
                     \*   ret       "ok", "BadPriority" or "panic"
                     \*   tid       the id spawn returned / schedule() reaped
                     \*   status    current_status as schedule() read it, the
                     \*             task's status as wakeup_task read it
                     \*   switch    <<outgoing, successor, new_sp>> given to
                     \*             switch, or <<>>
                     \*   transitions  the status changes it made, as
                     \*             <<TCB, from, to>>
                     \*   nested    <<held, taken>>: a lock taken while
                     \*             another was held
                     \*   unguarded what it wrote with interrupts enabled
                     \*   at_switch <<interrupt flag, locks held>> when
                     \*             switch was invoked, or <<>>

vars == <<tcb, current_task, idle_task, ready_queue, finished_tasks, tasks,
          NUM_TASKS, TID_COUNTER, tid_modulus, irq, fatal, last>>

\* Option::None for a TCB reference or a task id.
None == 0
NoId == -1

Priorities == 0 .. (NUM_PRIORITIES - 1)
Handles == 1 .. Len(tcb)

\* What a switch did: <<>> when schedule() issued no switch.
NoSwitch == <<>>

\* ---------------------------------------------------------------- Task

\* What a task's stack holds of the scheduler while the task does not run:
\* the interrupt flags its IRQ guards saved (innermost first) and the events
\* left to run when it is resumed.  Empty for a task that runs or never ran.
NoFrames == [saved |-> <<>>, cont |-> <<>>]

\* The root page table a TCB starts with.
KernelRootPageTable == 0

\* Task::new_idle(tid): status Idle.  The idle task runs on the boot stack,
\* so its last_stack_pointer holds no saved context yet.
NewIdle(tid, prio) ==
    [id |-> tid, status |-> "Idle", priority |-> prio,
     last_stack_pointer |-> "stale", pc |-> "task",
     stack |-> NoFrames, root_page_table |-> KernelRootPageTable]

\* Task::new(tid, Ready, priority) followed by create_stack_frame(func):
\* last_stack_pointer points at the synthetic first frame.
NewTask(tid, prio) ==
    [id |-> tid, status |-> "Ready", priority |-> prio,
     last_stack_pointer |-> "frame", pc |-> "task",
     stack |-> NoFrames, root_page_table |-> KernelRootPageTable]

\* ---------------------------------------------------- PriorityTaskQueue

EmptyQueue == [p \in Priorities |-> <<>>]

Push(q, h, prio) == [q EXCEPT ![prio] = Append(@, h)]

NonEmptyLevels(q) == {p \in Priorities : q[p] # <<>>}

MaxOf(S) == CHOOSE x \in S : \A y \in S : y <= x

PopFromLevel(q, p) ==
    [task |-> Head(q[p]), queue |-> [q EXCEPT ![p] = Tail(@)]]

\* pop(): head of the highest non-empty priority level.
Pop(q) ==
    IF NonEmptyLevels(q) = {}
    THEN [task |-> None, queue |-> q]
    ELSE PopFromLevel(q, MaxOf(NonEmptyLevels(q)))

\* pop_with_priority(p): head of the highest non-empty level strictly
\* greater than p.
PopWithPriority(q, prio) ==
    LET above == {p \in NonEmptyLevels(q) : p > prio}
    IN  IF above = {}
        THEN [task |-> None, queue |-> q]
        ELSE PopFromLevel(q, MaxOf(above))

\* The handles held by the ready queue, with multiplicity.
QueueItems(q) == {<<p, i>> : p \in Priorities, i \in 1 .. MaxSpawns + 2}
InQueueCount(q, h) ==
    Cardinality({pi \in QueueItems(q) :
                    /\ pi[2] <= Len(q[pi[1]])
                    /\ q[pi[1]][pi[2]] = h})
InQueue(q, h) == \E p \in Priorities : \E i \in 1 .. Len(q[p]) : q[p][i] = h
QueueEmpty(q) == \A p \in Priorities : q[p] = <<>>

\* ------------------------------------------------------------ BTreeMap

MapInsert(m, k, v) == [x \in (DOMAIN m) \cup {k} |-> IF x = k THEN v ELSE m[x]]
MapRemove(m, k) == [x \in (DOMAIN m) \ {k} |-> m[x]]

\* ------------------------------------ irqsave, SpinlockIrqSave, events

\* What a scheduler path does besides computing, in program order:
\*   <<"irq_save">>, <<"irq_restore">>   entry and exit of irqsave(f)
\*   <<"lock", l>>, <<"unlock", l>>      SpinlockIrqSave l: lock() and the
\*                                       drop of its guard
\*   <<"write", x>>                      a write of scheduler state x
\*   <<"switch">>                        the call of switch
IrqSaveEnter == <<"irq_save">>
IrqSaveLeave == <<"irq_restore">>
Lock(l) == <<"lock", l>>
Unlock(l) == <<"unlock", l>>
Write(x) == <<"write", x>>
Switch == <<"switch">>

\* The execution context a path runs in: the interrupt flag, the flags the
\* open IRQ guards saved (innermost first), the locks held; and what the
\* path did so far.  cont is what is left to run after a switch.
Context(flag, frames) ==
    [irq |-> flag, saved |-> frames.saved, held |-> {},
     nested |-> {}, unguarded |-> {}, at_switch |-> <<>>, cont |-> <<>>]

\* Entry of irqsave: the flag is saved, interrupts are disabled.
IrqDisable(c) == [c EXCEPT !.saved = <<c.irq>> \o @, !.irq = FALSE]

\* Exit of irqsave: the flag the matching entry saved is restored.
IrqRestore(c) ==
    IF c.saved = <<>> THEN c
    ELSE [c EXCEPT !.irq = Head(c.saved), !.saved = Tail(@)]

\* One event in context c.  lock() disables interrupts, then takes the
\* lock; the guard's drop releases it, then restores the flag.  switch
\* stores the outgoing stack pointer through the slot in the current TCB.
Step(c, e) ==
    CASE e[1] = "irq_save" -> IrqDisable(c)
      [] e[1] = "irq_restore" -> IrqRestore(c)
      [] e[1] = "lock" ->
            LET d == IrqDisable(c)
            IN  [d EXCEPT !.nested = @ \cup {<<h, e[2]>> : h \in c.held},
                          !.held = @ \cup {e[2]}]
      [] e[1] = "unlock" -> IrqRestore([c EXCEPT !.held = @ \ {e[2]}])
      [] e[1] = "write" ->
            [c EXCEPT !.unguarded = IF c.irq THEN @ \cup {e[2]} ELSE @]
      [] e[1] = "switch" ->
            [c EXCEPT !.at_switch = <<c.irq, c.held>>,
                      !.unguarded = IF c.irq
                                    THEN @ \cup {"last_stack_pointer"}
                                    ELSE @]

\* The events run in context c, up to and including the first switch; what
\* follows the switch is left in cont.
RECURSIVE Run(_, _)
Run(events, c) ==
    IF events = <<>>
    THEN c
    ELSE IF Head(events) = Switch
    THEN [Step(c, Switch) EXCEPT !.cont = Tail(events)]
    ELSE Run(Tail(events), Step(c, Head(events)))

\* The status changes between two values of the TCBs.
Transitions(before, after) ==
    {<<h, before[h].status, after[h].status>> :
        h \in {x \in DOMAIN before : before[x].status # after[x].status}}

\* The record of an operation.
Last(op, arg, ret, tid, status, switch, transitions, c) ==
    [op |-> op, arg |-> arg, ret |-> ret, tid |-> tid, status |-> status,
     switch |-> switch, transitions |-> transitions, nested |-> c.nested,
     unguarded |-> c.unguarded, at_switch |-> c.at_switch]

\* ---------------------------------------------------------------- Init

\* Scheduler::new(): the idle TCB takes the first id of TID_COUNTER, is put
\* in the task table and is both current_task and idle_task.
\* The priority Task::new_idle gives the idle task is not in scheduler.rs:
\* every level is explored.  new() runs at boot, interrupts not yet enabled.
NewEvents == <<Lock("tasks"), Write("tasks"), Unlock("tasks")>>

Init ==
    /\ \E prio \in Priorities : tcb = <<NewIdle(0, prio)>>
    /\ current_task = 1
    /\ idle_task = 1
    /\ ready_queue = EmptyQueue
    /\ finished_tasks = <<>>
    /\ tasks = MapInsert(<<>>, 0, 1)
    /\ NUM_TASKS = 0
    /\ tid_modulus \in TidModuli
    /\ TID_COUNTER = 1 % tid_modulus
    /\ irq = FALSE
    /\ fatal = "none"
    /\ last = Last("new", 0, "ok", 0, "-", NoSwitch, {},
                   Run(NewEvents, Context(FALSE, NoFrames)))

\* ------------------------------------------------------------- get_tid

\* Mutant: the counter's value is taken without looking at the task table.
GetTid_NoProbe(counter, table) ==
    [id |-> counter, counter |-> (counter + 1) % tid_modulus]

\* get_tid(): fetch_add on TID_COUNTER until the id is not a key of the
\* task table.  Yields the id and the counter left behind.
RECURSIVE GetTid(_, _)
GetTid(counter, table) ==
    IF counter \notin DOMAIN table
    THEN [id |-> counter, counter |-> (counter + 1) % tid_modulus]
    ELSE GetTid((counter + 1) % tid_modulus, table)

\* The number of ids get_tid() draws: one more than the ids it finds taken.
RECURSIVE Probes(_, _)
Probes(counter, table) ==
    IF counter \notin DOMAIN table
    THEN 1
    ELSE 1 + Probes((counter + 1) % tid_modulus, table)

\* get_tid(): each probe looks the id up under the lock of the task table;
\* the guard is dropped with the condition of the if.
RECURSIVE GetTidEvents(_)
GetTidEvents(probes) ==
    IF probes = 0
    THEN <<>>
    ELSE <<Lock("tasks"), Unlock("tasks")>> \o GetTidEvents(probes - 1)

\* --------------------------------------------------------------- spawn

\* Mutant: the IRQ guard of spawn() is entered and never left.
SpawnEvents_NoRestore(prio, probes) ==
    IF prio >= NUM_PRIORITIES
    THEN <<IrqSaveEnter>>
    ELSE <<IrqSaveEnter>> \o GetTidEvents(probes)
         \o <<Lock("ready_queue"), Write("ready_queue"), Unlock("ready_queue"),
              Lock("tasks"), Write("tasks"), Unlock("tasks")>>

\* spawn(): the closure under irqsave; each lock() guard is a temporary
\* dropped at the end of its statement.
SpawnEvents(prio, probes) ==
    IF prio >= NUM_PRIORITIES
    THEN <<IrqSaveEnter, IrqSaveLeave>>
    ELSE <<IrqSaveEnter>> \o GetTidEvents(probes)
         \o <<Lock("ready_queue"), Write("ready_queue"), Unlock("ready_queue"),
              Lock("tasks"), Write("tasks"), Unlock("tasks")>>
         \o <<IrqSaveLeave>>

\* The caller's context: the flag as it is, nothing saved.
Called(events) == Run(events, Context(irq, NoFrames))

\* The closure of spawn() after the priority check: a fresh TCB is pushed
\* on the ready queue, inserted in the task table, NUM_TASKS is bumped.
SpawnCommit(prio) ==
    LET got == GetTid(TID_COUNTER, tasks)
        h   == Len(tcb) + 1
        c   == Called(SpawnEvents(prio, Probes(TID_COUNTER, tasks)))
    IN  /\ tcb' = Append(tcb, NewTask(got.id, prio))
        /\ TID_COUNTER' = got.counter
        /\ ready_queue' = Push(ready_queue, h, prio)
        /\ tasks' = MapInsert(tasks, got.id, h)
        /\ NUM_TASKS' = (NUM_TASKS + 1) % NumTasksModulus
        /\ irq' = c.irq
        /\ last' = Last("spawn", prio, "ok", got.id, "-", NoSwitch, {}, c)
        /\ UNCHANGED <<current_task, idle_task, finished_tasks, tid_modulus, fatal>>

\* Mutant: the id is drawn from TID_COUNTER before the range check.
SpawnReject_IdDrawn(prio) ==
    /\ irq' = Called(SpawnEvents(prio, 0)).irq
    /\ last' = Last("spawn", prio, "BadPriority", NoId, "-", NoSwitch, {},
                    Called(SpawnEvents(prio, 0)))
    /\ TID_COUNTER' = (TID_COUNTER + 1) % tid_modulus
    /\ UNCHANGED <<tcb, current_task, idle_task, ready_queue, finished_tasks,
                   tasks, NUM_TASKS, tid_modulus, fatal>>

\* spawn() with a priority that fails the range check.
SpawnReject(prio) ==
    /\ irq' = Called(SpawnEvents(prio, 0)).irq
    /\ last' = Last("spawn", prio, "BadPriority", NoId, "-", NoSwitch, {},
                    Called(SpawnEvents(prio, 0)))
    /\ UNCHANGED <<tcb, current_task, idle_task, ready_queue, finished_tasks,
                   tasks, NUM_TASKS, TID_COUNTER, tid_modulus, fatal>>

\* spawn(func, priority).  The table never holds every id of the counter's
\* range, so get_tid terminates.
Spawn(prio) ==
    /\ fatal = "none"
    /\ IF prio >= NUM_PRIORITIES
       THEN SpawnReject(prio)
       ELSE /\ Len(tcb) <= MaxSpawns
            /\ Cardinality(DOMAIN tasks) < tid_modulus
            /\ SpawnCommit(prio)

\* ------------------------------------------------------------ schedule

\* Mutant: the reap looks at the head of finished_tasks and leaves it there.
ReapOne_HeadKept(fin, table) ==
    IF fin = <<>>
    THEN [finished_tasks |-> fin, tasks |-> table, reaped |-> NoId]
    ELSE [finished_tasks |-> fin,
          tasks |-> MapRemove(table, Head(fin)),
          reaped |-> Head(fin)]

\* schedule() step 1: pop at most one id from finished_tasks and remove its
\* TCB from the task table.
ReapOne(fin, table) ==
    IF fin = <<>>
    THEN [finished_tasks |-> fin, tasks |-> table, reaped |-> NoId]
    ELSE [finished_tasks |-> Tail(fin),
          tasks |-> MapRemove(table, Head(fin)),
          reaped |-> Head(fin)]

\* Mutant: the priority of a Running current task is ignored.
SelectNext_AlwaysPop(current_status, current_prio, q) == Pop(q)

\* Mutant: only a task of higher priority is popped, whatever the status.
SelectNext_Strict(current_status, current_prio, q) ==
    PopWithPriority(q, current_prio)

\* schedule(): the successor popped from the ready queue.
SelectNext(current_status, current_prio, q) ==
    IF current_status = "Running"
    THEN PopWithPriority(q, current_prio)
    ELSE Pop(q)

\* Mutant: the idle task is the fallback also for an Idle current task.
IdleFallback_IdleToo(next_task, current_status, idle) ==
    IF next_task = None /\ current_status # "Running"
    THEN idle
    ELSE next_task

\* schedule(): with nothing popped and a current task that cannot go on,
\* the idle task is the successor.
IdleFallback(next_task, current_status, idle) ==
    IF next_task = None /\ current_status # "Running" /\ current_status # "Idle"
    THEN idle
    ELSE next_task

\* schedule(): the successor is marked Running.
MarkRunning(t, new_task) == [t EXCEPT ![new_task].status = "Running"]

\* Mutant: a preempted task is queued but keeps the status Running.
CommitCurrent_KeepRunning(t, q, fin, cur, current_status) ==
    IF current_status = "Running"
    THEN [tcb |-> t,
          ready_queue |-> Push(q, cur, t[cur].priority),
          finished_tasks |-> fin]
    ELSE IF current_status = "Finished"
    THEN [tcb |-> [t EXCEPT ![cur].status = "Invalid"],
          ready_queue |-> q,
          finished_tasks |-> Append(fin, t[cur].id)]
    ELSE [tcb |-> t, ready_queue |-> q, finished_tasks |-> fin]

\* schedule(): what becomes of the outgoing task, given the status read
\* in the snapshot.
CommitCurrent(t, q, fin, cur, current_status) ==
    IF current_status = "Running"
    THEN [tcb |-> [t EXCEPT ![cur].status = "Ready"],
          ready_queue |-> Push(q, cur, t[cur].priority),
          finished_tasks |-> fin]
    ELSE IF current_status = "Finished"
    THEN [tcb |-> [t EXCEPT ![cur].status = "Invalid"],
          ready_queue |-> q,
          finished_tasks |-> Append(fin, t[cur].id)]
    ELSE [tcb |-> t, ready_queue |-> q, finished_tasks |-> fin]

\* switch(old_sp_slot, new_sp): the outgoing context is saved through the
\* slot, then new_sp is loaded and its context consumed.
SwitchStacks(t, old, new) ==
    [[t EXCEPT ![old].last_stack_pointer = "saved"]
        EXCEPT ![new].last_stack_pointer = "stale"]

\* schedule(), the reap: the guard of finished_tasks.lock() is a temporary
\* of the match scrutinee, dropped at the end of the match statement, after
\* the arm that locks the task table.
ReapEvents(fin) ==
    IF fin = <<>>
    THEN <<Lock("finished_tasks"), Unlock("finished_tasks")>>
    ELSE <<Lock("finished_tasks"), Write("finished_tasks"),
           Lock("tasks"), Write("tasks"), Unlock("tasks"),
           Unlock("finished_tasks")>>

\* Mutant: the guard of the ready queue taken for the pop is kept.
SelectEvents_GuardKept(next_task) ==
    IF next_task = None
    THEN <<Lock("ready_queue")>>
    ELSE <<Lock("ready_queue"), Write("ready_queue")>>

\* schedule(), the pop: the guard is dropped with the assignment.
SelectEvents(next_task) ==
    IF next_task = None
    THEN <<Lock("ready_queue"), Unlock("ready_queue")>>
    ELSE <<Lock("ready_queue"), Write("ready_queue"), Unlock("ready_queue")>>

\* schedule() with a successor: it is marked Running, the outgoing task is
\* committed, current_task is assigned and switch is called.
InstallEvents(current_status) ==
    <<Write("status")>>
    \o (IF current_status = "Running"
        THEN <<Write("status"), Lock("ready_queue"), Write("ready_queue"),
               Unlock("ready_queue")>>
        ELSE IF current_status = "Finished"
        THEN <<Write("status"), Lock("finished_tasks"),
               Write("finished_tasks"), Unlock("finished_tasks")>>
        ELSE <<>>)
    \o <<Write("current_task"), Switch>>

\* schedule() on the scheduler state (t, cur, idle, q, fin, table): the
\* state it leaves, the switch it issued, the status changes it made and
\* its events.
Schedule(t, cur, idle, q, fin, table) ==
    LET reap     == ReapOne(fin, table)
        status   == t[cur].status
        popped   == SelectNext(status, t[cur].priority, q)
        new_task == IdleFallback(popped.task, status, idle)
    IN  IF new_task = None
        THEN [tcb |-> t, current_task |-> cur, ready_queue |-> popped.queue,
              finished_tasks |-> reap.finished_tasks, tasks |-> reap.tasks,
              reaped |-> reap.reaped, switch |-> NoSwitch,
              transitions |-> {},
              events |-> ReapEvents(fin) \o SelectEvents(popped.task)]
        ELSE LET new_sp == t[new_task].last_stack_pointer
                 marked == MarkRunning(t, new_task)
                 done   == CommitCurrent(marked, popped.queue,
                                         reap.finished_tasks, cur, status)
             IN  [tcb |-> SwitchStacks(done.tcb, cur, new_task),
                  current_task |-> new_task,
                  ready_queue |-> done.ready_queue,
                  finished_tasks |-> done.finished_tasks,
                  tasks |-> reap.tasks,
                  reaped |-> reap.reaped,
                  switch |-> <<cur, new_task, new_sp>>,
                  transitions |-> Transitions(t, marked)
                                  \cup Transitions(marked, done.tcb),
                  events |-> ReapEvents(fin) \o SelectEvents(popped.task)
                             \o InstallEvents(status)]

\* Where control goes once schedule() has run on behalf of operation op
\* ("reschedule", "exit" or "abort").
\*  - no switch: schedule() returns to its caller;
\*  - a switch to another task resumes that task where it was suspended; a
\*    task suspended inside exit()/abort() returns from reschedule() there
\*    and reaches the panic that follows it ("exit failed!" stands for
\*    "abort failed!" too);
\*  - a switch of a task to itself loads its stale saved stack pointer:
\*    either the frame is the one just saved and schedule() returns to its
\*    caller, or the kernel crashes.
Returned(op) == IF op = "reschedule" THEN "none" ELSE "exit failed!"

Outcomes(op, out, t) ==
    IF out.switch = NoSwitch
    THEN {Returned(op)}
    ELSE IF out.switch[1] = out.switch[2]
    THEN {Returned(op), "crash"}
    ELSE IF t[out.switch[2]].pc # "task"
    THEN {"exit failed!"}
    ELSE {"none"}

\* reschedule(): schedule() under irqsave.
RescheduleEvents(schedule) == <<IrqSaveEnter>> \o schedule \o <<IrqSaveLeave>>

\* What two paths did, one after the other.
Both(c, d) ==
    [d EXCEPT !.nested = @ \cup c.nested,
              !.unguarded = @ \cup c.unguarded,
              !.at_switch = c.at_switch]

\* The scheduler state after the caller ran the events `before` and then
\* reschedule(), on the TCBs t, for op.  A switch leaves the outgoing
\* task's open IRQ guards and the rest of its path on its stack, and goes
\* on with what the successor's stack holds: a resumed task leaves the
\* reschedule() it was suspended in, a task that never ran starts at its
\* entry with the interrupt flag as it is.  (Each intermediate value is
\* bound by a quantifier over a singleton, so that it is computed once.)
Scheduled(op, t, before) ==
    LET cur == current_task
    IN  \E out \in {Schedule(t, cur, idle_task, ready_queue,
                              finished_tasks, tasks)} :
        \E c \in {Called(before \o RescheduleEvents(out.events))} :
        \E pushed \in {[out.tcb EXCEPT ![cur].stack =
                            [saved |-> c.saved, cont |-> c.cont]]} :
        \E resumed \in {Run(pushed[out.current_task].stack.cont,
                             Context(c.irq, pushed[out.current_task].stack))} :
            /\ current_task' = out.current_task
            /\ ready_queue' = out.ready_queue
            /\ finished_tasks' = out.finished_tasks
            /\ tasks' = out.tasks
            /\ fatal' \in Outcomes(op, out, t)
            /\ IF out.switch = NoSwitch
               THEN /\ tcb' = out.tcb
                    /\ irq' = c.irq
                    /\ last' = Last(op, cur, "ok", out.reaped, t[cur].status,
                                    out.switch, Transitions(tcb, t), c)
               ELSE /\ tcb' = [pushed EXCEPT ![out.current_task].stack =
                                                NoFrames]
                    /\ irq' = resumed.irq
                    /\ last' = Last(op, cur, "ok", out.reaped, t[cur].status,
                                    out.switch,
                                    Transitions(tcb, t) \cup out.transitions,
                                    Both(c, resumed))
            /\ UNCHANGED <<idle_task, TID_COUNTER, tid_modulus>>

\* reschedule().
Reschedule ==
    /\ fatal = "none"
    /\ Scheduled("reschedule", tcb, <<>>)
    /\ UNCHANGED NUM_TASKS

\* ------------------------------------------------------- exit / abort

\* cleanup(): the current task becomes Finished, NUM_TASKS is decremented.
\* The task's control stays inside exit()/abort() from here on.
Cleanup(t, cur) ==
    [t EXCEPT ![cur].status = "Finished", ![cur].pc = "exiting"]

\* The closure of exit() / abort() that runs cleanup(), under irqsave.
CleanupEvents == <<IrqSaveEnter, Write("status"), IrqSaveLeave>>

\* The idle check of exit() / abort().
MayTerminate(t, cur) == t[cur].status # "Idle"

\* exit() / abort(): cleanup unless the current task is Idle (panic), then
\* reschedule().
Terminate(op) ==
    /\ fatal = "none"
    /\ IF MayTerminate(tcb, current_task)
       THEN /\ NUM_TASKS' = (NUM_TASKS - 1) % NumTasksModulus
            /\ Scheduled(op, Cleanup(tcb, current_task), CleanupEvents)
       ELSE /\ fatal' = "unable to terminate idle task"
            /\ irq' = Called(<<IrqSaveEnter>>).irq
            /\ last' = Last(op, current_task, "panic", NoId, "-", NoSwitch,
                            {}, Called(<<IrqSaveEnter>>))
            /\ UNCHANGED <<tcb, current_task, idle_task, ready_queue,
                           finished_tasks, tasks, NUM_TASKS, TID_COUNTER,
                           tid_modulus>>

Exit == Terminate("exit")

Abort == Terminate("abort")

\* ------------------------------------------------- block_current_task

\* Mutant: only the Idle status is refused.
MayBlock_NotIdle(t, cur) == t[cur].status # "Idle"

\* The status check of block_current_task().
MayBlock(t, cur) == t[cur].status = "Running"

\* The closure of block_current_task() that blocks, under irqsave.
BlockEvents == <<IrqSaveEnter, Write("status"), IrqSaveLeave>>

\* block_current_task(): a Running current task becomes Blocked and its
\* reference is returned; otherwise panic.
BlockCurrentTask ==
    /\ fatal = "none"
    /\ IF MayBlock(tcb, current_task)
       THEN /\ tcb' = [tcb EXCEPT ![current_task].status = "Blocked"]
            /\ irq' = Called(BlockEvents).irq
            /\ last' = Last("block_current_task", current_task, "ok",
                            tcb[current_task].id, "-", NoSwitch,
                            Transitions(tcb, tcb'), Called(BlockEvents))
            /\ UNCHANGED fatal
       ELSE /\ fatal' = "unable to block task"
            /\ irq' = Called(<<IrqSaveEnter>>).irq
            /\ last' = Last("block_current_task", current_task, "panic",
                            NoId, "-", NoSwitch, {}, Called(<<IrqSaveEnter>>))
            /\ UNCHANGED tcb
    /\ UNCHANGED <<current_task, idle_task, ready_queue, finished_tasks,
                   tasks, NUM_TASKS, TID_COUNTER, tid_modulus>>

\* --------------------------------------------------------- wakeup_task

\* Mutant: the task is queued whatever its status.
Woken_NoCheck(t, q, task) ==
    [tcb |-> [t EXCEPT ![task].status = "Ready"],
     ready_queue |-> Push(q, task, t[task].priority)]

\* The closure of wakeup_task(task): a Blocked task becomes Ready and is
\* pushed on the ready queue; otherwise nothing.
Woken(t, q, task) ==
    IF t[task].status = "Blocked"
    THEN [tcb |-> [t EXCEPT ![task].status = "Ready"],
          ready_queue |-> Push(q, task, t[task].priority)]
    ELSE [tcb |-> t, ready_queue |-> q]

\* The closure of wakeup_task() under irqsave.
WakeupEvents(status) ==
    <<IrqSaveEnter>>
    \o (IF status = "Blocked"
        THEN <<Write("status"), Lock("ready_queue"), Write("ready_queue"),
               Unlock("ready_queue")>>
        ELSE <<>>)
    \o <<IrqSaveLeave>>

\* wakeup_task(task) for any TCB reference a caller can hold.
WakeupTask(task) ==
    /\ fatal = "none"
    /\ LET w == Woken(tcb, ready_queue, task)
           c == Called(WakeupEvents(tcb[task].status))
       IN  /\ tcb' = w.tcb
           /\ ready_queue' = w.ready_queue
           /\ irq' = c.irq
           /\ last' = Last("wakeup_task", task, "ok", NoId, tcb[task].status,
                           NoSwitch, Transitions(tcb, w.tcb), c)
    /\ UNCHANGED <<current_task, idle_task, finished_tasks, tasks,
                   NUM_TASKS, TID_COUNTER, tid_modulus, fatal>>

\* ---------------------------------------------------------------- Next

Next ==
    \/ \E prio \in 0 .. NUM_PRIORITIES : Spawn(prio)
    \/ BlockCurrentTask
    \/ \E task \in Handles : WakeupTask(task)
    \/ Exit
    \/ Abort
    \/ Reschedule

Spec == Init /\ [][Next]_vars

\* reschedule() has work to do for the reaper: the kernel runs and an id
\* waits in finished_tasks.
ReapPending == fatal = "none" /\ finished_tasks # <<>>

\* The scheduler under the proviso that schedule() is called again: weak
\* fairness of reschedule(), with ReapPending written out for its enabling
\* condition (reschedule() is enabled whenever the kernel runs).
SpecLive == Spec /\ ([]<>(~ReapPending) \/ []<><<Reschedule>>_vars)

\* ------------------------------------- auxiliary operations, callers

\* get_current_taskid(): the id of current_task, read under irqsave.
GetCurrentTaskid ==
    /\ fatal = "none"
    /\ irq' = Called(<<IrqSaveEnter, IrqSaveLeave>>).irq
    /\ last' = Last("get_current_taskid", current_task, "ok",
                    tcb[current_task].id, "-", NoSwitch, {},
                    Called(<<IrqSaveEnter, IrqSaveLeave>>))
    /\ UNCHANGED <<tcb, current_task, idle_task, ready_queue, finished_tasks,
                   tasks, NUM_TASKS, TID_COUNTER, tid_modulus, fatal>>

\* get_current_stack(): the bottom of current_task's stack, read under
\* irqsave.
GetCurrentStack ==
    /\ fatal = "none"
    /\ irq' = Called(<<IrqSaveEnter, IrqSaveLeave>>).irq
    /\ last' = Last("get_current_stack", current_task, "ok", NoId, "-",
                    NoSwitch, {}, Called(<<IrqSaveEnter, IrqSaveLeave>>))
    /\ UNCHANGED <<tcb, current_task, idle_task, ready_queue, finished_tasks,
                   tasks, NUM_TASKS, TID_COUNTER, tid_modulus, fatal>>

\* get_root_page_table(): a plain read of current_task's field.
GetRootPageTable ==
    /\ fatal = "none"
    /\ irq' = Called(<<>>).irq
    /\ last' = Last("get_root_page_table", current_task, "ok",
                    tcb[current_task].root_page_table, "-", NoSwitch, {},
                    Called(<<>>))
    /\ UNCHANGED <<tcb, current_task, idle_task, ready_queue, finished_tasks,
                   tasks, NUM_TASKS, TID_COUNTER, tid_modulus, fatal>>

\* The addresses set_root_page_table is called with.
RootPageTables == {KernelRootPageTable, KernelRootPageTable + 1}

\* set_root_page_table(addr): a plain borrow_mut() and write.
SetRootPageTableEvents == <<Write("root_page_table")>>

SetRootPageTable(addr) ==
    /\ fatal = "none"
    /\ tcb' = [tcb EXCEPT ![current_task].root_page_table = addr]
    /\ irq' = Called(SetRootPageTableEvents).irq
    /\ last' = Last("set_root_page_table", current_task, "ok", addr, "-",
                    NoSwitch, {}, Called(SetRootPageTableEvents))
    /\ UNCHANGED <<current_task, idle_task, ready_queue, finished_tasks,
                   tasks, NUM_TASKS, TID_COUNTER, tid_modulus, fatal>>

\* The running task (or the boot code) enables or disables interrupts
\* between two scheduler operations.
SetInterrupts(flag) ==
    /\ fatal = "none"
    /\ irq # flag
    /\ irq' = flag
    /\ last' = Last(IF flag THEN "sti" ELSE "cli", current_task, "ok", NoId,
                    "-", NoSwitch, {}, Context(flag, NoFrames))
    /\ UNCHANGED <<tcb, current_task, idle_task, ready_queue, finished_tasks,
                   tasks, NUM_TASKS, TID_COUNTER, tid_modulus, fatal>>

\* spawn() while fewer than MaxIrqSpawns tasks were spawned.
SpawnIrq(prio) ==
    /\ prio < NUM_PRIORITIES => Len(tcb) <= MaxIrqSpawns
    /\ Spawn(prio)

\* The operations that return and exit() / abort(), called with interrupts
\* enabled or disabled.
NextIrq ==
    \/ \E prio \in 0 .. NUM_PRIORITIES : SpawnIrq(prio)
    \/ BlockCurrentTask
    \/ \E task \in Handles : WakeupTask(task)
    \/ Exit
    \/ Abort
    \/ Reschedule
    \/ \E flag \in BOOLEAN : SetInterrupts(flag)
    \/ GetCurrentTaskid
    \/ GetCurrentStack

SpecIrq == Init /\ [][NextIrq]_vars

\* The operations on the root page table next to the lifecycle operations.
NextPageTable ==
    \/ \E prio \in 0 .. NUM_PRIORITIES : SpawnIrq(prio)
    \/ BlockCurrentTask
    \/ \E task \in Handles : WakeupTask(task)
    \/ Exit
    \/ Abort
    \/ Reschedule
    \/ \E flag \in BOOLEAN : SetInterrupts(flag)
    \/ GetRootPageTable
    \/ \E addr \in RootPageTables : SetRootPageTable(addr)

SpecPageTable == Init /\ [][NextPageTable]_vars

\* ------------------------------------------------------------- helpers

\* The TCBs the task table refers to.
TableHandles == {tasks[k] : k \in DOMAIN tasks}

\* A step of schedule(): reschedule(), or the reschedule() that ends a
\* successful exit() / abort().
IsSchedulePass(l) == l.op \in {"reschedule", "exit", "abort"} /\ l.ret = "ok"

\* -------------------------------------------------------------- claims

\* C1: after every scheduler operation a TCB is in the ready queue if and
\* only if its status is Ready and it is not the idle task.
C1_ReadyQueueMembership ==
    fatal = "none" =>
        \A h \in Handles :
            InQueue(ready_queue, h) <=> (tcb[h].status = "Ready" /\ h # idle_task)

\* C2: the idle task is never in the ready queue.
C2_IdleNeverQueued == ~InQueue(ready_queue, idle_task)

\* C3: exit() / abort() called while the idle task is current is fatal and
\* leaves the idle task's status and NUM_TASKS unchanged; the idle task
\* never becomes Finished or Invalid.
C3_IdleStatusKept == tcb[idle_task].status \notin {"Finished", "Invalid"}

C3_IdleExitRefused ==
    (last'.op \in {"exit", "abort"} /\ current_task = idle_task)
        => /\ last'.ret = "panic"
           /\ fatal' = "unable to terminate idle task"
           /\ tcb'[idle_task].status = tcb[idle_task].status
           /\ NUM_TASKS' = NUM_TASKS

C3_IdleCannotExit == [][C3_IdleExitRefused]_vars /\ []C3_IdleStatusKept

\* C4: priority preemption rule.  When schedule() runs with a current task
\* of status Running and priority p, a switch occurs if and only if the
\* highest non-empty level q of the ready queue satisfies q > p; otherwise
\* current_task, every status and the ready queue are left as they were.
C4_Step ==
    (last'.op = "reschedule" /\ tcb[current_task].status = "Running") =>
        LET p       == tcb[current_task].priority
            levels  == NonEmptyLevels(ready_queue)
            preempt == levels # {} /\ MaxOf(levels) > p
        IN  /\ (last'.switch # NoSwitch) <=> preempt
            /\ ~preempt =>
                /\ current_task' = current_task
                /\ \A h \in Handles : tcb'[h].status = tcb[h].status
                /\ ready_queue' = ready_queue

C4_PriorityPreemption == [][C4_Step]_vars

\* A Running task was preempted by a ready task of higher priority.
C4_Witness ==
    /\ last.op = "reschedule"
    /\ last.status = "Running"
    /\ last.switch # NoSwitch
    /\ tcb[last.switch[2]].priority > tcb[last.switch[1]].priority
    /\ tcb[last.switch[1]].status = "Ready"

\* C5: idle fallback.  When schedule() runs with a current task that is
\* Blocked, Finished or Invalid and the ready queue is empty, the idle task
\* becomes current_task and switch gets the idle task's saved stack
\* pointer; with an Idle current task and an empty queue no switch occurs
\* and current_task stays the idle task.
C5_Step ==
    (IsSchedulePass(last') /\ QueueEmpty(ready_queue)) =>
        /\ last'.status \in {"Blocked", "Finished", "Invalid"} =>
            /\ current_task' = idle_task
            /\ last'.switch = <<current_task, idle_task,
                                tcb[idle_task].last_stack_pointer>>
        /\ last'.status = "Idle" =>
            /\ last'.switch = NoSwitch
            /\ current_task = idle_task
            /\ current_task' = idle_task

C5_IdleFallback == [][C5_Step]_vars

\* A Blocked task rescheduled on an empty queue and the idle task took over.
C5_Witness ==
    /\ IsSchedulePass(last)
    /\ last.status = "Blocked"
    /\ last.switch # NoSwitch
    /\ last.switch[1] # idle_task
    /\ last.switch[2] = idle_task
    /\ current_task = idle_task

\* The ids held by finished_tasks.
FinishedIds(fin) == {fin[i] : i \in 1 .. Len(fin)}

\* The TCB a schedule() pass removed from the task table, or None.
Reaped(l, table) ==
    IF IsSchedulePass(l) /\ l.tid # NoId /\ l.tid \in DOMAIN table
    THEN table[l.tid]
    ELSE None

\* C6: reap ordering.  A task that goes Finished -> Invalid on a schedule
\* pass has its id in finished_tasks at that moment and is still in the
\* task table after that pass (it is removed on a later pass only); it is
\* not current_task then, the TCB a pass removes is not current_task, and
\* at every switch the outgoing task's TCB is still in the task table.
C6_InvalidatedStep ==
    (IsSchedulePass(last') /\ last'.status = "Finished") =>
        /\ tcb'[current_task].status = "Invalid"
        /\ tcb[current_task].id \in FinishedIds(finished_tasks')
        /\ current_task \in TableHandles => current_task \in TableHandles'
        /\ current_task' # current_task

C6_RemovedStep ==
    Reaped(last', tasks) # None =>
        /\ Reaped(last', tasks) # current_task
        /\ Reaped(last', tasks) # current_task'

C6_SwitchStep ==
    (IsSchedulePass(last') /\ last'.switch # NoSwitch) =>
        last'.switch[1] \in TableHandles'

C6_ReapOrdering ==
    [][C6_InvalidatedStep /\ C6_RemovedStep /\ C6_SwitchStep]_vars

\* The TCBs of status Running among a set of TCBs.
RunningIn(hs) == {h \in hs : tcb[h].status = "Running"}

\* C7 as stated: between scheduler operations exactly one TCB of the task
\* table has status Running.
C7_ExactlyOneRunning == Cardinality(RunningIn(TableHandles)) = 1

\* C7 as amended: at most one TCB has status Running.
C7_AtMostOneRunning == Cardinality(RunningIn(TableHandles)) <= 1

\* A switch between two tasks of the table left exactly one of them Running.
C7_Witness ==
    /\ last.op = "reschedule"
    /\ last.status = "Running"
    /\ last.switch # NoSwitch
    /\ last.switch[1] # last.switch[2]
    /\ {last.switch[1], last.switch[2]} \subseteq TableHandles
    /\ RunningIn(Handles) = {last.switch[2]}

\* C8: spawn with a priority >= NUM_PRIORITIES returns BadPriority and
\* leaves the task table, the ready queue, NUM_TASKS, TID_COUNTER,
\* current_task and every TCB as they were.
C8_Step ==
    (last'.op = "spawn" /\ last'.arg >= NUM_PRIORITIES) =>
        /\ last'.ret = "BadPriority"
        /\ UNCHANGED <<tcb, tasks, ready_queue, finished_tasks, NUM_TASKS,
                       TID_COUNTER, current_task>>

C8_BadPriorityNoEffect == [][C8_Step]_vars

\* spawn was rejected while tasks exist and ids have been handed out.
C8_Witness ==
    /\ last.op = "spawn"
    /\ last.ret = "BadPriority"
    /\ last.arg = NUM_PRIORITIES
    /\ Len(tcb) > 1
    /\ NUM_TASKS > 0

\* The ids of the TCBs the task table holds.
TableIds == {tcb[h].id : h \in TableHandles}

\* C9: the id spawn returns differs from the id of every TCB in the task
\* table at that moment, also after TID_COUNTER wrapped; any two TCBs in
\* the task table have different ids (K TCBs in the table carry K ids).
C9_SpawnStep ==
    (last'.op = "spawn" /\ last'.ret = "ok") =>
        /\ last'.tid \notin TableIds
        /\ last'.tid \notin DOMAIN tasks
        /\ tcb'[Len(tcb')].id = last'.tid
        /\ tasks'[last'.tid] = Len(tcb')

C9_TableIdsDistinct ==
    /\ \A k \in DOMAIN tasks : tcb[tasks[k]].id = k
    /\ Cardinality(TableIds) = Cardinality(TableHandles)
    /\ Cardinality(TableHandles) = Cardinality(DOMAIN tasks)

C9_UniqueIds == [][C9_SpawnStep]_vars /\ []C9_TableIdsDistinct

\* spawn returned an id after TID_COUNTER wrapped (the new id is not above
\* an id given earlier) and get_tid probed past id 0, still in the table.
C9_Witness ==
    /\ last.op = "spawn"
    /\ last.ret = "ok"
    /\ \E h \in 2 .. (Len(tcb) - 1) : tcb[h].id >= last.tid
    /\ 0 \in DOMAIN tasks
    /\ last.tid > 0

\* C10: wakeup_task(t) makes a Blocked t Ready and appends it to the ready
\* queue exactly once; for any other status it changes nothing.  It never
\* changes current_task, finished_tasks, the task table or NUM_TASKS and
\* issues no switch.  No TCB is in the ready queue more than once.
C10_Step ==
    last'.op = "wakeup_task" =>
        LET t == last'.arg
        IN  /\ tcb[t].status = "Blocked" =>
                /\ tcb'[t].status = "Ready"
                /\ InQueueCount(ready_queue, t) = 0
                /\ InQueueCount(ready_queue', t) = 1
                /\ ready_queue'[tcb[t].priority] =
                       Append(ready_queue[tcb[t].priority], t)
                /\ \A p \in Priorities \ {tcb[t].priority} :
                       ready_queue'[p] = ready_queue[p]
                /\ \A h \in Handles \ {t} : tcb'[h] = tcb[h]
            /\ tcb[t].status # "Blocked" => UNCHANGED <<tcb, ready_queue>>
            /\ UNCHANGED <<current_task, finished_tasks, tasks, NUM_TASKS>>
            /\ last'.switch = NoSwitch

C10_QueuedOnce == \A h \in Handles : InQueueCount(ready_queue, h) <= 1

C10_Wakeup == [][C10_Step]_vars /\ []C10_QueuedOnce

\* A Blocked task other than the current one was woken next to a queued task.
C10_Witness ==
    /\ last.op = "wakeup_task"
    /\ last.status = "Blocked"
    /\ tcb[last.arg].status = "Ready"
    /\ InQueueCount(ready_queue, last.arg) = 1
    /\ last.arg # current_task
    /\ \E h \in Handles \ {last.arg} : InQueue(ready_queue, h)

\* C11: block_current_task() on a Running current task sets it Blocked,
\* returns the reference to current_task and changes nothing else (no
\* switch); on a current task of any other status it is fatal and changes
\* no state.
C11_Step ==
    last'.op = "block_current_task" =>
        /\ last'.switch = NoSwitch
        /\ UNCHANGED <<current_task, idle_task, ready_queue, finished_tasks,
                       tasks, NUM_TASKS, TID_COUNTER>>
        /\ IF tcb[current_task].status = "Running"
           THEN /\ tcb' = [tcb EXCEPT ![current_task].status = "Blocked"]
                /\ last'.ret = "ok"
                /\ last'.arg = current_task
                /\ fatal' = "none"
           ELSE /\ tcb' = tcb
                /\ last'.ret = "panic"
                /\ fatal' = "unable to block task"

C11_BlockCurrentTask == [][C11_Step]_vars

\* A Running task other than the idle task blocked itself while another
\* task was ready.
C11_Witness ==
    /\ last.op = "block_current_task"
    /\ last.ret = "ok"
    /\ last.arg = current_task
    /\ current_task # idle_task
    /\ tcb[current_task].status = "Blocked"
    /\ ~QueueEmpty(ready_queue)

\* The public operations that return to their caller.
C12_Returning ==
    {"spawn", "block_current_task", "wakeup_task", "reschedule",
     "get_current_taskid", "get_current_stack"}

\* C12: every public operation that returns leaves the interrupt flag as
\* the caller had it on entry, entered with interrupts enabled or disabled.
\* An operation that does not switch returns with the flag of its entry.  A
\* reschedule() that switches away leaves the flag of its entry saved on
\* the outgoing task's stack, and a task resumed on its stack returns from
\* the reschedule() it was suspended in with the flag saved there.
C12_ReturnStep ==
    (/\ last'.op \in C12_Returning
     /\ fatal' = "none"
     /\ \/ last'.switch = NoSwitch
        \/ last'.switch[1] = last'.switch[2]) =>
        irq' = irq

C12_SuspendStep ==
    (/\ last'.op = "reschedule"
     /\ last'.switch # NoSwitch
     /\ last'.switch[1] # last'.switch[2]) =>
        /\ last'.switch[1] = current_task
        /\ tcb'[current_task].stack.saved = <<irq>>

C12_ResumeStep ==
    (/\ last'.switch # NoSwitch
     /\ last'.switch[1] # last'.switch[2]
     /\ last'.switch[3] = "saved"
     /\ fatal' = "none") =>
        /\ tcb[current_task'].stack.saved # <<>>
        /\ irq' = Head(tcb[current_task'].stack.saved)
        /\ tcb'[current_task'].stack = NoFrames

C12_IrqFlagPreserved ==
    [][C12_ReturnStep /\ C12_SuspendStep /\ C12_ResumeStep]_vars

\* A reschedule() entered with interrupts disabled switched to a task that
\* had entered its own reschedule() with interrupts enabled: the resumed
\* task runs with interrupts enabled, the flag of the suspended caller is
\* kept on its stack.
C12_Witness ==
    /\ last.op = "reschedule"
    /\ last.switch # NoSwitch
    /\ last.switch[3] = "saved"
    /\ last.switch[1] # last.switch[2]
    /\ fatal = "none"
    /\ irq
    /\ tcb[last.switch[1]].stack.saved = <<FALSE>>

\* C13: every path that mutates scheduler state or a TCB field runs with
\* interrupts disabled: no operation writes status, last_stack_pointer,
\* root_page_table, current_task, the ready queue, finished_tasks or the
\* task table while the interrupt flag is set.
C13_MutationsGuarded == last.unguarded = {}

\* The live non-idle tasks: TCBs other than the idle task whose status is
\* Ready, Running or Blocked.
LiveTasks ==
    {h \in Handles \ {idle_task} :
        tcb[h].status \in {"Ready", "Running", "Blocked"}}

\* C14: NUM_TASKS equals the number of live non-idle tasks and never wraps
\* below zero.
C14_NumTasksIsLiveCount ==
    fatal = "none" => NUM_TASKS = Cardinality(LiveTasks)

\* C15: a task that called exit() or abort() is never selected again.  The
\* pass that ends its exit()/abort() does not pick it as successor, and from
\* then on no pass installs it as successor or as current_task, its status
\* only moves Finished -> Invalid, and it is never pushed on the ready queue.
C15_ExitStep ==
    (last'.op \in {"exit", "abort"} /\ last'.ret = "ok") =>
        /\ last'.switch # NoSwitch
        /\ last'.switch[2] # current_task
        /\ current_task' # current_task
        /\ tcb'[current_task].status = "Invalid"

C15_LaterStep ==
    \A h \in Handles :
        tcb[h].pc = "exiting" =>
            /\ last'.switch # NoSwitch => last'.switch[2] # h
            /\ current_task # h => current_task' # h
            /\ \/ tcb'[h].status = tcb[h].status
               \/ tcb[h].status = "Finished" /\ tcb'[h].status = "Invalid"
            /\ InQueueCount(ready_queue', h) <= InQueueCount(ready_queue, h)

C15_ExitedNeverReselected == [][C15_ExitStep /\ C15_LaterStep]_vars

\* C16: leaf locks.  No scheduler path takes one of the locks ready_queue,
\* finished_tasks, tasks while it holds another of them.
C16_LeafLocks == last.nested = {}

\* C17: when schedule() invokes switch, none of the locks ready_queue,
\* finished_tasks, tasks is held and interrupts are disabled by the IRQ
\* guard of the enclosing reschedule().
C17_SwitchUnlockedIrqOff ==
    last.switch # NoSwitch => last.at_switch = <<FALSE, {}>>

\* A reschedule() entered with interrupts enabled switched to another task:
\* the switch ran with interrupts disabled and no lock held, the enabled
\* flag of the caller is saved on the outgoing stack.
C17_Witness ==
    /\ last.op = "reschedule"
    /\ last.switch # NoSwitch
    /\ last.switch[1] # last.switch[2]
    /\ last.at_switch = <<FALSE, {}>>
    /\ tcb[last.switch[1]].stack.saved = <<TRUE>>
    /\ fatal = "none"

\* The status transitions the lifecycle lists.
ListedTransitions ==
    {<<"Ready", "Running">>, <<"Running", "Ready">>, <<"Running", "Blocked">>,
     <<"Blocked", "Ready">>, <<"Running", "Finished">>,
     <<"Finished", "Invalid">>}

\* C18: every status change of every TCB is one of the listed transitions;
\* a TCB whose status is Idle never changes status.
C18_ListedTransitionsOnly ==
    \A x \in last.transitions : <<x[2], x[3]>> \in ListedTransitions

\* C19: selection order.  When schedule() runs with a current task that is
\* not Running and a non-empty ready queue, the successor is the head of
\* the highest non-empty level; every level is a FIFO: a step takes at
\* most its head and appends at most one TCB, one that became Ready in that
\* step.
C19_SelectStep ==
    (IsSchedulePass(last') /\ last'.status # "Running"
                           /\ ~QueueEmpty(ready_queue)) =>
        LET p == MaxOf(NonEmptyLevels(ready_queue))
        IN  /\ last'.switch # NoSwitch
            /\ last'.switch[2] = Head(ready_queue[p])
            /\ ready_queue' = [ready_queue EXCEPT ![p] = Tail(@)]

C19_FifoStep ==
    \A p \in Priorities :
        \E drop \in {0, 1} :
            LET kept == SubSeq(ready_queue[p], 1 + drop, Len(ready_queue[p]))
            IN  \/ ready_queue'[p] = kept
                \/ \E h \in 1 .. Len(tcb') :
                      /\ ready_queue'[p] = Append(kept, h)
                      /\ tcb'[h].status = "Ready"
                      /\ h \in Handles => tcb[h].status # "Ready"

C19_SelectionOrder == [][C19_SelectStep /\ C19_FifoStep]_vars

\* Scenario S3: two tasks of one priority; the first ran and blocked, the
\* second ran, the first was woken, the second blocked and rescheduled: the
\* first is selected again, resumed where it was suspended.
C19_Witness ==
    /\ last.op = "reschedule"
    /\ last.status = "Blocked"
    /\ Len(tcb) >= 3
    /\ last.switch = <<3, 2, "saved">>
    /\ tcb[2].priority = tcb[3].priority
    /\ tcb[2].status = "Running"
    /\ tcb[3].status = "Blocked"
    /\ fatal = "none"

\* C20: whenever reschedule() is called while the idle task is current and
\* the ready queue is not empty, a switch to a ready task occurs.
C20_Step ==
    (last'.op = "reschedule" /\ current_task = idle_task
                             /\ ~QueueEmpty(ready_queue)) =>
        /\ last'.switch # NoSwitch
        /\ last'.switch[2] # idle_task
        /\ current_task' # idle_task

C20_IdleYields == [][C20_Step]_vars

\* C21: schedule() never makes the current task its own successor and never
\* hands switch a stale stack pointer: the successor differs from the
\* outgoing task, and new_sp is the successor's initial frame or the value
\* saved when it was last switched out.
C21_NoSelfSwitchNoStaleSp ==
    last.switch # NoSwitch =>
        /\ last.switch[1] # last.switch[2]
        /\ last.switch[3] \in {"frame", "saved"}

\* The ids of the model.
C22_Ids == 0 .. MaxSpawns

\* C22: bounded reaping.  A schedule() pass removes at most the head of
\* finished_tasks and appends at most one id, no other operation touches
\* it; a task that becomes Invalid does so on a pass that leaves its id in
\* finished_tasks and its TCB in the task table; the next pass, switching
\* or not, removes every id that waits in finished_tasks from the task
\* table.  finished_tasks never holds more than one id, and provided
\* schedule() is called again every waiting id is eventually reaped.
C22_QueueStep ==
    IF IsSchedulePass(last')
    THEN \E rest \in {finished_tasks,
                       IF finished_tasks = <<>> THEN <<>>
                       ELSE Tail(finished_tasks)} :
             \/ finished_tasks' = rest
             \/ \E id \in C22_Ids : finished_tasks' = Append(rest, id)
    ELSE finished_tasks' = finished_tasks

C22_InvalidStep ==
    \A h \in 1 .. Len(tcb) :
        (tcb[h].status # "Invalid" /\ tcb'[h].status = "Invalid") =>
            /\ IsSchedulePass(last')
            /\ finished_tasks' # <<>>
            /\ finished_tasks'[Len(finished_tasks')] = tcb[h].id
            /\ tcb[h].id \in DOMAIN tasks'
            /\ tasks'[tcb[h].id] = h

C22_ReapStep ==
    IsSchedulePass(last') =>
        \A id \in FinishedIds(finished_tasks) : id \notin DOMAIN tasks'

C22_AtMostOne == Len(finished_tasks) <= 1

C22_Waiting(id) == id \in FinishedIds(finished_tasks) /\ id \in DOMAIN tasks

C22_BoundedReaping ==
    /\ [][C22_QueueStep /\ C22_InvalidStep /\ C22_ReapStep]_vars
    /\ []C22_AtMostOne
    /\ \A id \in C22_Ids :
           C22_Waiting(id) ~> (~C22_Waiting(id) \/ fatal # "none")

\* A pass that did not switch removed from the task table the task that
\* became Invalid on the pass before it.
C22_Witness ==
    /\ last.op = "reschedule"
    /\ last.switch = NoSwitch
    /\ last.tid # NoId
    /\ last.tid \notin DOMAIN tasks
    /\ finished_tasks = <<>>
    /\ \E h \in 1 .. Len(tcb) : tcb[h].status = "Invalid" /\ tcb[h].id = last.tid
    /\ fatal = "none"

====
